---- MODULE Spec2Model ----
(***************************************************************************)
(* The progressive-disclosure session controller of the LearnSor/Sterling  *)
(* extension host (src/extension.js): the level registry, the shared       *)
(* userProgress record, the isRequestInFlight flag, the level and          *)
(* follow-up request handlers, and the Python worker adapter               *)
(* (generateEducationalResponse) with its kill timer and fallback spawn.   *)
(*                                                                         *)
(* The host is a single-threaded event loop: every action below is one     *)
(* macrotask together with the nextTick/promise microtasks it schedules.   *)
(***************************************************************************)
EXTENDS Integers, Sequences, FiniteSets, TLC

(* ------------------------------ bounds -------------------------------- *)
MaxTime == 62000
TickSteps == {30500}
Codes == {"A", "B"}
MainCodes == {"A"}
Questions == {"q1"}
SessionQuestions == {"q1", "q2"}
RequestIds == {"concept", "how", "code", "bogus"}
Outputs == {{"level1", "level2", "level3"}, {"combined", "level1"}, {}}
Platforms == {"win32", "linux"}
Slots == {1, 2}

(* -------------------------- program constants ------------------------- *)
DWELL_MS == 60000
KILL_MS == 45000
Epoch == 1000
Undefined == -1

LEARNING_LEVELS ==
  << [id |-> "concept", title |-> "Concept & Why"],
     [id |-> "how", title |-> "How (Implementation Hints)"],
     [id |-> "code", title |-> "Code (with blanks)"] >>

LevelCount == Len(LEARNING_LEVELS)
LevelIdx == 0 .. (LevelCount - 1)

\* LEARNING_LEVELS.findIndex(l => l.id === requestedLevel): 0-based, -1 if absent
findIndex(id) ==
  IF \E i \in 1 .. LevelCount : LEARNING_LEVELS[i].id = id
  THEN (CHOOSE i \in 1 .. LevelCount : LEARNING_LEVELS[i].id = id) - 1
  ELSE -1

\* LEARNING_LEVELS[i] for a 0-based index that is in range
levelAt(i) == LEARNING_LEVELS[i + 1]

\* JavaScript truthiness of a timestamp: undefined and 0 are falsy
Truthy(t) == t # Undefined /\ t # 0

\* Math.ceil(a / b) for b > 0
CeilDiv(a, b) == IF a >= 0 THEN (a + b - 1) \div b ELSE -((-a) \div b)

\* the remaining wait rounded down instead of up
waitTimeFloor(currentTime, lastLevelTime) ==
  (DWELL_MS - (currentTime - lastLevelTime)) \div 1000

\* Math.ceil((60000 - (currentTime - lastLevelTime)) / 1000)
waitTime(currentTime, lastLevelTime) ==
  CeilDiv(DWELL_MS - (currentTime - lastLevelTime), 1000)

\* a reset that leaves the level where the last selection got to
FreshProgressKeepLevel(code) ==
  [currentLevel |-> LevelCount - 1,
   levelTimestamps |-> [i \in LevelIdx |-> Undefined],
   selectedCode |-> code,
   currentQuestion |-> ""]

\* the userProgress literal of a fresh selection
FreshProgress(code) ==
  [currentLevel |-> 0,
   levelTimestamps |-> [i \in LevelIdx |-> Undefined],
   selectedCode |-> code,
   currentQuestion |-> ""]

\* a question that starts the progress again
bindQuestionReset(progress, question) ==
  [FreshProgress(progress.selectedCode) EXCEPT !.currentQuestion = question]

\* userProgress.currentQuestion = question
bindQuestion(progress, question) ==
  [progress EXCEPT !.currentQuestion = question]

(* ------------------------------- state -------------------------------- *)
VARIABLES
  userProgress,       \* the module-level progress record
  isRequestInFlight,  \* the module-level single-flight flag
  panels,             \* the selections a webview panel is open for
  pendingInput,       \* the selection of the input box that is open, or ""
  inv,                \* worker invocations: promise and process of each
  now,                \* Date.now()
  platform,           \* process.platform
  out,                \* the messages posted to webviews by the last event
  last,               \* the last event and what it decided
  served,             \* level indices served to the bound selection since its reset
  ui                  \* the script state of the webview of a panel

vars == << userProgress, isRequestInFlight, panels, pendingInput, inv, now,
           platform, out, last, served, ui >>

\* a worker invocation: the request its callbacks captured (panel, level,
\* levelIndex, currentTime), whether its promise is settled, and its process:
\* the deadline of its kill timer, the payloads written to its stdin, and
\* whether it is the primary ("none"), a fallback ("once") or the fallback of
\* a fallback ("again")
NoInv ==
  [kind |-> "none", panel |-> "", level |-> "", levelIndex |-> -1,
   currentTime |-> 0, settled |-> FALSE, deadline |-> 0, writes |-> 0,
   fallbacks |-> "none"]

NoEvent ==
  [op |-> "none", kind |-> "", panel |-> "", level |-> "", idx |-> -1,
   verdict |-> "", wait |-> 0, reqTime |-> 0, spawned |-> 0, text |-> "",
   preFlight |-> FALSE, parsed |-> {}, exit |-> 0,
   outcome |-> [ok |-> FALSE, text |-> ""]]

(* ----------------------------- messages ------------------------------- *)
Msg(p, command, level, title, response, canProceed, message) ==
  [to |-> p, command |-> command, level |-> level, levelTitle |-> title,
   response |-> response, canProceed |-> canProceed, message |-> message]

showError(p, message) == Msg(p, "showError", "", "", "", FALSE, message)
showLoadingNoLevel(p, level) == Msg(p, "showLoading", "", "", "", FALSE, "")
showLoading(p, level) == Msg(p, "showLoading", level, "", "", FALSE, "")
showResponse(p, level, title, response, canProceed) ==
  Msg(p, "showResponse", level, title, response, canProceed, "")
markCompleted(p, level) == Msg(p, "markCompleted", level, "", "", FALSE, "")
showFollowUpAsResponse(p, response) ==
  Msg(p, "showResponse", "followup", "", response, FALSE, "")
showFollowUpResponse(p, response) ==
  Msg(p, "showFollowUpResponse", "", "", response, FALSE, "")

MsgBusy == "A request is already in progress. Please wait for it to complete."
MsgWait == "Please wait N more seconds before accessing the next level."
MsgOrder == "Please complete the previous levels first."
MsgNoRoot == "Could not find api_client.py"
MsgStart == "Failed to start Python"
MsgTimeout == "Python timed out after 45s"
MsgExit == "Python exited with code"
MsgParse == "Failed to parse Python output"
MsgTypeError == "Cannot read properties of undefined (reading 'title')"

(* ------------------------- access controller --------------------------- *)
\* a timing validation applied to the current level too
timingBlockedCurrent(levelIndex, currentTime, progress) ==
  LET lastLevelTime == progress.levelTimestamps[progress.currentLevel] IN
    /\ levelIndex >= progress.currentLevel
    /\ Truthy(lastLevelTime)
    /\ (currentTime - lastLevelTime) < DWELL_MS

\* a timing validation that still blocks when exactly the dwell time has passed
timingBlockedAtBoundary(levelIndex, currentTime, progress) ==
  LET lastLevelTime == progress.levelTimestamps[progress.currentLevel] IN
    /\ levelIndex > progress.currentLevel
    /\ Truthy(lastLevelTime)
    /\ (currentTime - lastLevelTime) <= DWELL_MS

\* the timing validation of handleLevelRequest ("Second check")
timingBlocked(levelIndex, currentTime, progress) ==
  LET lastLevelTime == progress.levelTimestamps[progress.currentLevel] IN
    /\ levelIndex > progress.currentLevel
    /\ Truthy(lastLevelTime)
    /\ (currentTime - lastLevelTime) < DWELL_MS

\* a chain without the branch that allows the next level
levelReachableNoNext(levelIndex, progress) ==
  \/ levelIndex < progress.currentLevel
  \/ levelIndex = progress.currentLevel

\* the if / else-if chain of handleLevelRequest ("Third check")
levelReachable(levelIndex, progress) ==
  \/ levelIndex < progress.currentLevel
  \/ levelIndex = progress.currentLevel
  \/ levelIndex = progress.currentLevel + 1

\* the checks of handleLevelRequest in the order the code makes them
accessCheck(levelIndex, currentTime, progress, inFlight) ==
  IF inFlight THEN "BUSY"
  ELSE IF timingBlocked(levelIndex, currentTime, progress) THEN "TOO_SOON"
  ELSE IF ~levelReachable(levelIndex, progress) THEN "OUT_OF_ORDER"
  ELSE "ADMIT"

\* the flag set on entry, before the checks
admitFlagEarly(verdict, flag) == TRUE

\* isRequestInFlight = true is reached only when no check has returned
admitFlag(verdict, flag) == IF verdict = "ADMIT" THEN TRUE ELSE flag

\* handleFollowUpQuestion makes no check before it calls the worker
followUpCheck(inFlight) == "ADMIT"

\* a rejection whose response lets the webview proceed
rejectMsgsCanProceed(p, level, text) ==
  << showError(p, text),
     showResponse(p, level, "Request Blocked", text, TRUE) >>

\* the two messages every rejection of handleLevelRequest posts
rejectMsgs(p, level, text) ==
  << showError(p, text),
     showResponse(p, level, "Request Blocked", text, FALSE) >>

rejectText(verdict) ==
  CASE verdict = "BUSY" -> MsgBusy
    [] verdict = "TOO_SOON" -> MsgWait
    [] OTHER -> MsgOrder

(* --------------------------- worker adapter --------------------------- *)
StartEnvs == {"ok", "noroot", "throw", "throw2"}

\* the target_level switch of the stdin payload
targetLevel(level) ==
  CASE level = "concept" -> "level1"
    [] level = "how" -> "level2"
    [] level = "code" -> "level3"
    [] OTHER -> "level1"

\* the switch on level of the close handler; parsed is the set of keys present
extractText(level, parsed) ==
  CASE level \in {"logical", "pseudocode"} ->
         IF "level1" \in parsed THEN "level1"
         ELSE IF "combined" \in parsed THEN "combined" ELSE "No Level 1 output"
    [] level = "functions" ->
         IF "level2" \in parsed THEN "level2" ELSE "No Level 2 output"
    [] level = "snippet" ->
         IF "level3" \in parsed THEN "level3" ELSE "No Level 3 output"
    [] OTHER ->
         IF "combined" \in parsed THEN "combined"
         ELSE IF "level1" \in parsed THEN "level1" ELSE "No output"

\* standard output that JSON.parse rejects
Malformed == {"malformed"}

\* a close handler that looks at the exit code before killedByTimeout
closeOutcomeExitFirst(killedByTimeout, codeExit, output, level) ==
  IF codeExit # 0 THEN [ok |-> FALSE, text |-> MsgExit]
  ELSE IF killedByTimeout THEN [ok |-> FALSE, text |-> MsgTimeout]
  ELSE IF output = Malformed THEN [ok |-> FALSE, text |-> MsgParse]
  ELSE [ok |-> TRUE, text |-> extractText(level, output)]

\* a close handler that does not look at killedByTimeout
closeOutcomeNoTimeout(killedByTimeout, codeExit, output, level) ==
  IF codeExit # 0 THEN [ok |-> FALSE, text |-> MsgExit]
  ELSE IF output = Malformed THEN [ok |-> FALSE, text |-> MsgParse]
  ELSE [ok |-> TRUE, text |-> extractText(level, output)]

\* the close handler: which way the promise is settled
closeOutcome(killedByTimeout, codeExit, output, level) ==
  IF killedByTimeout THEN [ok |-> FALSE, text |-> MsgTimeout]
  ELSE IF codeExit # 0 THEN [ok |-> FALSE, text |-> MsgExit]
  ELSE IF output = Malformed THEN [ok |-> FALSE, text |-> MsgParse]
  ELSE [ok |-> TRUE, text |-> extractText(level, output)]

\* an invocation whose promise is settled: the process may live on, but the
\* callbacks' captured request (panel, level, time) is never read again
Settled(r) ==
  [r EXCEPT !.kind = "zombie", !.settled = TRUE, !.panel = "", !.level = "",
            !.levelIndex = -1, !.currentTime = 0]

\* the synchronous part of generateEducationalResponse: the invocation it
\* leaves behind (kind "none" when no process was spawned), the rejection, if
\* any, and the number of spawn calls made
startWorker(kind, p, level, levelIndex, currentTime, env) ==
  LET base == [NoInv EXCEPT !.kind = kind, !.panel = p, !.level = level,
                            !.levelIndex = levelIndex,
                            !.currentTime = currentTime,
                            !.deadline = now + KILL_MS, !.writes = 1]
  IN
  CASE env = "noroot" -> [r |-> NoInv, err |-> MsgNoRoot, spawned |-> 0]
    [] env = "ok" -> [r |-> base, err |-> "", spawned |-> 1]
    [] env = "throw" ->
         IF platform = "win32"
         THEN [r |-> [base EXCEPT !.fallbacks = "once"], err |-> "",
               spawned |-> 2]
         ELSE [r |-> NoInv, err |-> MsgStart, spawned |-> 1]
    [] OTHER ->
         [r |-> NoInv, err |-> MsgStart,
          spawned |-> IF platform = "win32" THEN 2 ELSE 1]

(* ------------------------- promise callbacks -------------------------- *)
\* a progress update without the levelIndex >= currentLevel guard
advanceProgressAlways(progress, levelIndex, currentTime) ==
  IF levelIndex \in LevelIdx
  THEN [progress EXCEPT !.currentLevel = levelIndex,
                        !.levelTimestamps[levelIndex] = currentTime]
  ELSE progress

\* a progress update that skips a request for the current level
advanceProgressStrict(progress, levelIndex, currentTime) ==
  IF levelIndex > progress.currentLevel
  THEN [progress EXCEPT !.currentLevel = levelIndex,
                        !.levelTimestamps[levelIndex] = currentTime]
  ELSE progress

\* a progress update that moves the level and stores no timestamp
advanceProgressNoStamp(progress, levelIndex, currentTime) ==
  IF levelIndex >= progress.currentLevel
  THEN [progress EXCEPT !.currentLevel = levelIndex]
  ELSE progress

\* a progress update that takes any index findIndex returns
advanceProgressUnguarded(progress, levelIndex, currentTime) ==
  [progress EXCEPT
     !.currentLevel = levelIndex,
     !.levelTimestamps = IF levelIndex \in LevelIdx
                         THEN [@ EXCEPT ![levelIndex] = currentTime] ELSE @]

\* .then of handleLevelRequest: the progress update
advanceProgress(progress, levelIndex, currentTime) ==
  IF levelIndex >= progress.currentLevel
  THEN [progress EXCEPT !.currentLevel = levelIndex,
                        !.levelTimestamps[levelIndex] = currentTime]
  ELSE progress

\* canProceed off by one
canProceedOffByOne(levelIndex) == levelIndex <= LevelCount - 1

\* canProceed: levelIndex < LEARNING_LEVELS.length - 1
canProceed(levelIndex) == levelIndex < LevelCount - 1

\* a .catch that posts the "Error" response only
levelCatchMsgsNoError(p, level, text) ==
  << showResponse(p, level, "Error", "Request failed. Please try again.", FALSE) >>

\* .catch of handleLevelRequest
levelCatchMsgs(p, level, text) ==
  << showError(p, text),
     showResponse(p, level, "Error", "Request failed. Please try again.", FALSE) >>

\* a .then that marks the level completed before it posts the response
levelThenMsgsCompletedFirst(p, level, levelIndex, response) ==
  IF levelIndex \in LevelIdx
  THEN << markCompleted(p, levelAt(levelIndex).id),
          showResponse(p, level, levelAt(levelIndex).title, response,
                       levelIndex < LevelCount - 1) >>
  ELSE levelCatchMsgs(p, level, MsgTypeError)

\* .then of handleLevelRequest: the messages; LEARNING_LEVELS[-1].title throws
\* a TypeError, which the .catch of the same chain handles
levelThenMsgs(p, level, levelIndex, response) ==
  IF levelIndex \in LevelIdx
  THEN << showResponse(p, level, levelAt(levelIndex).title, response,
                       canProceed(levelIndex)),
          markCompleted(p, levelAt(levelIndex).id) >>
  ELSE levelCatchMsgs(p, level, MsgTypeError)

\* a settlement that updates the progress whether the worker succeeded or not
settleProgressOnFailure(progress, ok, levelIndex, currentTime) ==
  advanceProgress(progress, levelIndex, currentTime)

\* the progress after the promise of a level request is settled: .then
\* updates it, .catch leaves it alone
settleProgress(progress, ok, levelIndex, currentTime) ==
  IF ok THEN advanceProgress(progress, levelIndex, currentTime) ELSE progress

\* a follow-up answer that moves on to the next level
followUpProgressAdvance(progress) ==
  [progress EXCEPT !.currentLevel = (progress.currentLevel + 1) % LevelCount]

\* .then / .catch of handleFollowUpQuestion: neither assigns userProgress
followUpProgress(progress) == progress

\* a .finally that leaves the flag as it is
finallyFlagKept(flag) == flag

\* .finally of handleLevelRequest
finallyFlag(flag) == FALSE

\* the verdict recorded for a settled promise
settleVerdict(ok, levelIndex, kind) ==
  IF ok /\ (kind = "followup" \/ levelIndex \in LevelIdx) THEN "SUCCESS"
  ELSE "FAILED"

(* ------------------------------ helpers ------------------------------- *)
HasFreeSlot == \E i \in Slots : inv[i].kind = "none"
FreeSlot == CHOOSE i \in Slots :
              inv[i].kind = "none" /\ \A j \in Slots : inv[j].kind = "none" => i <= j

\* the invocations f with slot i released; the rest keep their order
Release(f, i) ==
  [j \in Slots |-> IF j < i THEN f[j]
                   ELSE IF j + 1 \in Slots THEN f[j + 1] ELSE NoInv]

\* worker processes alive
LiveProcs == {i \in Slots : inv[i].kind # "none"}

\* promises of level requests not settled yet
PendingLevel == {i \in Slots : inv[i].kind = "level" /\ ~inv[i].settled}

Event(op, kind, p, level, idx, verdict) ==
  [NoEvent EXCEPT !.op = op, !.kind = kind, !.panel = p, !.level = level,
                  !.idx = idx, !.verdict = verdict,
                  !.preFlight = isRequestInFlight]

(* ------------------------------ webview ------------------------------- *)
\* the script of the webview (src/media/ui.js)
UI_TIMEOUT_MS == 30000
UI_COUNTDOWN == 60
UI_INTERVAL_MS == 1000

\* the script state of a new webview: no request in progress, no timers, the
\* buttons of the second and third level disabled; awaiting records that a
\* requestLevel message was sent and the host has not replied to it yet
FreshUi ==
  [inProgress |-> FALSE, awaiting |-> FALSE, timers |-> {},
   disabled |-> {1, 2}, countdowns |-> {}]

\* levels.indexOf(level) of the webview's own list of level ids
uiIndexOf(level) ==
  CASE level = "concept" -> 0
    [] level = "how" -> 1
    [] level = "code" -> 2
    [] OTHER -> -1

\* unlockNextLevel: the interval that counts down from 60 and enables the
\* next button on the tick after the count reaches 0
unlockNextLevel(u, currentIndex) ==
  IF currentIndex < 3 - 1
  THEN [u EXCEPT !.countdowns =
          @ \cup {[next |-> currentIndex + 1,
                   at |-> now + (UI_COUNTDOWN + 1) * UI_INTERVAL_MS]}]
  ELSE u

\* the message listener of the webview, for one message of the host
uiReceive(u, m) ==
  CASE m.command = "showResponse" ->
         LET v == [u EXCEPT !.inProgress = FALSE, !.awaiting = FALSE] IN
           IF uiIndexOf(m.level) >= 0
           THEN unlockNextLevel(v, uiIndexOf(m.level)) ELSE v
    [] m.command = "markCompleted" ->
         [u EXCEPT !.disabled = @ \cup {uiIndexOf(m.level)}]
    [] m.command = "showError" -> [u EXCEPT !.inProgress = FALSE]
    [] OTHER -> u

\* the listener applied to the messages of one host event, in order
RECURSIVE uiDeliver(_, _)
uiDeliver(u, msgs) ==
  IF msgs = << >> THEN u ELSE uiDeliver(uiReceive(u, Head(msgs)), Tail(msgs))

\* requestLevel of the webview up to postMessage: the guard against double
\* clicks and disabled buttons, the flag and the 30 s fallback timer
uiCanRequest(u, levelId) ==
  /\ ~u.inProgress
  /\ uiIndexOf(levelId) \notin u.disabled

uiRequested(u) ==
  [u EXCEPT !.inProgress = TRUE, !.awaiting = TRUE,
            !.timers = @ \cup {now + UI_TIMEOUT_MS}]

(* ------------------------------- Init --------------------------------- *)
Init ==
  /\ userProgress = FreshProgress("")
  /\ isRequestInFlight = FALSE
  /\ panels = {}
  /\ pendingInput = ""
  /\ inv = [i \in Slots |-> NoInv]
  /\ now = Epoch
  /\ platform \in Platforms
  /\ out = << >>
  /\ last = NoEvent
  /\ served = {}
  /\ ui = FreshUi

(* ------------------------ session creation ---------------------------- *)
\* the learnsor.askQuestion command up to showInputBox
AskQuestion(selectedText) ==
  /\ IF selectedText # userProgress.selectedCode
     THEN /\ userProgress' = FreshProgress(selectedText)
          /\ served' = {}
          /\ last' = Event("askQuestion", "", selectedText, "", -1, "RESET")
     ELSE /\ UNCHANGED << userProgress, served >>
          /\ last' = Event("askQuestion", "", selectedText, "", -1, "KEEP")
  /\ pendingInput' = selectedText
  /\ out' = << >>
  /\ UNCHANGED << isRequestInFlight, panels, inv, now, platform >>

\* the .then of showInputBox: question is "" when the box is dismissed;
\* showLearningInterface opens a panel whose handlers capture selectedText
AnswerInput(question) ==
  /\ pendingInput # ""
  /\ pendingInput' = ""
  /\ IF question = ""
     THEN UNCHANGED << userProgress, panels >>
     ELSE /\ userProgress' = bindQuestion(userProgress, question)
          /\ panels' = panels \cup {pendingInput}
  /\ out' = << >>
  /\ last' = Event("answerInput", "", pendingInput, "", -1, "")
  /\ UNCHANGED << isRequestInFlight, inv, now, platform, served >>

(* --------------------------- level request ---------------------------- *)
handleLevelRequest(p, requestedLevel, env) ==
  LET levelIndex == findIndex(requestedLevel)
      currentTime == now
      verdict == accessCheck(levelIndex, currentTime, userProgress, isRequestInFlight)
      lastLevelTime == userProgress.levelTimestamps[userProgress.currentLevel]
      started == startWorker("level", p, requestedLevel, levelIndex, currentTime, env)
      ev == Event("requestLevel", "level", p, requestedLevel, levelIndex, verdict)
  IN
  /\ p \in panels
  /\ IF verdict # "ADMIT"
     THEN /\ env = "ok"
          /\ out' = rejectMsgs(p, requestedLevel, rejectText(verdict))
          /\ last' = [ev EXCEPT !.wait = IF verdict = "TOO_SOON"
                                         THEN waitTime(currentTime, lastLevelTime)
                                         ELSE 0]
          /\ isRequestInFlight' = admitFlag(verdict, isRequestInFlight)
          /\ UNCHANGED inv
     ELSE /\ started.r.kind = "none" \/ HasFreeSlot
          /\ last' = [ev EXCEPT !.spawned = started.spawned, !.reqTime = currentTime,
                                !.text = started.err]
          /\ IF started.err = ""
             THEN /\ out' = << showLoading(p, requestedLevel) >>
                  /\ isRequestInFlight' = admitFlag(verdict, isRequestInFlight)
             ELSE /\ out' = << showLoading(p, requestedLevel) >>
                              \o levelCatchMsgs(p, requestedLevel, started.err)
                  /\ isRequestInFlight' =
                       finallyFlag(admitFlag(verdict, isRequestInFlight))
          /\ IF started.r.kind = "none"
             THEN UNCHANGED inv
             ELSE inv' = [inv EXCEPT ![FreeSlot] = started.r]
  /\ UNCHANGED << userProgress, panels, pendingInput, now, platform, served >>

(* ------------------------- follow-up request -------------------------- *)
handleFollowUpQuestion(p, env) ==
  LET currentLevelId == levelAt(userProgress.currentLevel).id
      verdict == followUpCheck(isRequestInFlight)
      started == startWorker("followup", p, currentLevelId, -1, now, env)
      ev == Event("askFollowUp", "followup", p, currentLevelId, -1, verdict)
  IN
  /\ p \in panels
  /\ started.r.kind = "none" \/ HasFreeSlot
  /\ last' = [ev EXCEPT !.spawned = started.spawned, !.reqTime = now,
                        !.text = started.err]
  /\ out' = IF started.err = ""
            THEN << showLoading(p, "followup") >>
            ELSE << showLoading(p, "followup"), showError(p, started.err) >>
  /\ IF started.r.kind = "none"
     THEN UNCHANGED inv
     ELSE inv' = [inv EXCEPT ![FreeSlot] = started.r]
  /\ UNCHANGED << userProgress, isRequestInFlight, panels, pendingInput, now,
                  platform, served >>

(* ------------------------ promise settlement -------------------------- *)
\* resolve / reject of the promise of invocation r and the .then / .catch /
\* .finally callbacks that run in the same turn; a settled promise ignores it
Settle(r, outcome, ev) ==
  IF r.settled
  THEN /\ out' = << >>
       /\ last' = [ev EXCEPT !.verdict = "IGNORED"]
       /\ UNCHANGED << userProgress, isRequestInFlight, served >>
  ELSE IF r.kind = "level"
  THEN /\ userProgress' = settleProgress(userProgress, outcome.ok, r.levelIndex,
                                         r.currentTime)
       /\ out' = IF outcome.ok
                 THEN levelThenMsgs(r.panel, r.level, r.levelIndex, outcome.text)
                 ELSE levelCatchMsgs(r.panel, r.level, outcome.text)
       /\ isRequestInFlight' = finallyFlag(isRequestInFlight)
       /\ served' = IF /\ outcome.ok
                       /\ r.levelIndex \in LevelIdx
                       /\ r.panel = userProgress.selectedCode
                    THEN served \cup {r.levelIndex} ELSE served
       /\ last' = [ev EXCEPT
                     !.verdict = settleVerdict(outcome.ok, r.levelIndex, r.kind),
                     !.outcome = outcome,
                     !.text = IF outcome.ok /\ r.levelIndex \notin LevelIdx
                              THEN MsgTypeError ELSE outcome.text]
  ELSE /\ out' = IF outcome.ok
                 THEN << showFollowUpResponse(r.panel, outcome.text) >>
                 ELSE << showError(r.panel, outcome.text) >>
       /\ last' = [ev EXCEPT
                     !.verdict = settleVerdict(outcome.ok, r.levelIndex, r.kind),
                     !.outcome = outcome,
                     !.text = outcome.text]
       /\ userProgress' = followUpProgress(userProgress)
       /\ UNCHANGED << isRequestInFlight, served >>

SettleEvent(op, r) ==
  [Event(op, r.kind, r.panel, r.level, r.levelIndex, "") EXCEPT
     !.reqTime = r.currentTime]

(* -------------------------- process events ---------------------------- *)
\* proc.on('close') of a process that ran and exited before its kill timer
ProcClose(i, codeExit, output) ==
  LET r == inv[i] IN
  /\ r.kind # "none"
  /\ now < r.deadline
  /\ codeExit = 0 \/ output = {}
  /\ Settle(r, closeOutcome(FALSE, codeExit, output, r.level),
            [SettleEvent("close", r) EXCEPT
               !.parsed = IF r.settled \/ codeExit # 0 THEN {} ELSE output,
               !.exit = IF r.settled THEN 0 ELSE codeExit])
  /\ inv' = Release(inv, i)
  /\ UNCHANGED << panels, pendingInput, now, platform >>

\* a kill timer whose delay has passed and whose callback has not run yet
TimerDue(i) == inv[i].kind # "none" /\ now >= inv[i].deadline

\* the killTimer callback (killedByTimeout = true; proc.kill()) and the
\* 'close' of the killed process, which is the next event of the invocation
KillTimer(i) ==
  LET r == inv[i] IN
  /\ TimerDue(i)
  /\ Settle(r, closeOutcome(TRUE, -1, {}, r.level),
            [SettleEvent("timeout", r) EXCEPT
               !.exit = IF r.settled THEN 0 ELSE -1])
  /\ inv' = Release(inv, i)
  /\ UNCHANGED << panels, pendingInput, now, platform >>

\* proc.on('error') of a process that failed to launch, followed in the same
\* turn by its 'close' with a negative exit code; spawn reports the failure
\* on the next tick, before any other event
ProcError(i, errCode, fb) ==
  LET r == inv[i]
      ev == SettleEvent("error", r)
  IN
  /\ r.kind # "none"
  /\ now = r.deadline - KILL_MS
  /\ IF platform = "win32" /\ errCode = "ENOENT"
     THEN IF fb = "ok"
          THEN /\ Settle(r, closeOutcome(FALSE, -2, {}, r.level),
                         [ev EXCEPT !.spawned = 1,
                                    !.exit = IF r.settled THEN 0 ELSE -2])
               /\ inv' = [inv EXCEPT ![i] =
                            [Settled(r) EXCEPT
                               !.writes = 2,
                               !.deadline = now + KILL_MS,
                               !.fallbacks = IF r.fallbacks = "none"
                                             THEN "once" ELSE "again"]]
          ELSE /\ Settle(r, [ok |-> FALSE, text |-> MsgStart],
                         [ev EXCEPT !.spawned = 1])
               /\ inv' = Release(inv, i)
     ELSE /\ fb = "ok"
          /\ Settle(r, [ok |-> FALSE, text |-> MsgStart], ev)
          /\ inv' = Release(inv, i)
  /\ UNCHANGED << panels, pendingInput, now, platform >>

(* ------------------------------- time --------------------------------- *)
\* time passes; a due timer callback runs before more time passes
TickUntil(d, limit) ==
  /\ \A i \in Slots : ~TimerDue(i)
  /\ now + d <= limit
  /\ now' = now + d
  /\ out' = << >>
  /\ last' = NoEvent
  /\ UNCHANGED << userProgress, isRequestInFlight, panels, pendingInput, inv,
                  platform, served >>

Tick(d) == TickUntil(d, MaxTime)

(* --------------------------- specification ---------------------------- *)
\* one selection, every request id, every way the worker can start and end,
\* two invocations at a time
Next ==
  \/ (\E c \in MainCodes : AskQuestion(c)) /\ UNCHANGED ui
  \/ (\E q \in Questions \cup {""} : AnswerInput(q)) /\ UNCHANGED ui
  \/ (\E p \in MainCodes, l \in RequestIds, e \in StartEnvs : handleLevelRequest(p, l, e)) /\ UNCHANGED ui
  \/ (\E p \in MainCodes, e \in StartEnvs : handleFollowUpQuestion(p, e)) /\ UNCHANGED ui
  \/ (\E i \in Slots, c \in {0, 1}, o \in Outputs \cup {Malformed} : ProcClose(i, c, o)) /\ UNCHANGED ui
  \/ (\E i \in Slots, c \in {"ENOENT", "EACCES"}, f \in {"ok", "throw"} : ProcError(i, c, f)) /\ UNCHANGED ui
  \/ (\E i \in Slots : KillTimer(i)) /\ UNCHANGED ui
  \/ (\E d \in TickSteps : Tick(d)) /\ UNCHANGED ui

Spec == Init /\ [][Next]_vars

\* several selections, so that the progress is reset while panels of earlier
\* selections stay open; one invocation at a time, on one platform
SessionsInit == Init /\ platform = "linux"

SessionsNext ==
  \/ (\E c \in Codes : AskQuestion(c)) /\ UNCHANGED ui
  \/ (\E q \in SessionQuestions \cup {""} : AnswerInput(q)) /\ UNCHANGED ui
  \/ (\E p \in Codes, l \in RequestIds :
        handleLevelRequest(p, l, "ok") /\ inv'[2].kind = "none") /\ UNCHANGED ui
  \/ (\E p \in Codes : handleFollowUpQuestion(p, "ok") /\ inv'[2].kind = "none") /\ UNCHANGED ui
  \/ (\E c \in {0, 1}, o \in {{"level1"}, Malformed} : ProcClose(1, c, o)) /\ UNCHANGED ui
  \/ (ProcError(1, "ENOENT", "ok")) /\ UNCHANGED ui
  \/ (KillTimer(1)) /\ UNCHANGED ui
  \/ (\E d \in TickSteps : Tick(d)) /\ UNCHANGED ui

SessionsSpec == SessionsInit /\ [][SessionsNext]_vars

\* the requests and worker outcomes that decide the fate of the flag, with
\* the fairness the assumption "every worker process ends" states: a process
\* closes by itself or its kill timer ends it
LiveOutputs == {{"level1"}, Malformed}

ProcEnds(i) ==
  \/ (\E c \in {0, 1}, o \in LiveOutputs : ProcClose(i, c, o)) /\ UNCHANGED ui
  \/ (KillTimer(i)) /\ UNCHANGED ui

LiveNext ==
  \/ (\E c \in MainCodes : AskQuestion(c)) /\ UNCHANGED ui
  \/ (\E q \in Questions \cup {""} : AnswerInput(q)) /\ UNCHANGED ui
  \/ (\E p \in MainCodes, l \in {"concept", "bogus"}, e \in StartEnvs :
        handleLevelRequest(p, l, e)) /\ UNCHANGED ui
  \/ (\E p \in MainCodes, e \in StartEnvs : handleFollowUpQuestion(p, e)) /\ UNCHANGED ui
  \/ (\E i \in Slots : ProcEnds(i)) /\ UNCHANGED ui
  \/ (\E i \in Slots, c \in {"ENOENT", "EACCES"}, f \in {"ok", "throw"} : ProcError(i, c, f)) /\ UNCHANGED ui
  \/ (\E d \in TickSteps : Tick(d)) /\ UNCHANGED ui

LiveSpec == Init /\ [][LiveNext]_vars /\ \A i \in Slots : WF_vars(ProcEnds(i))

\* one selection and one invocation at a time on one platform, with steps of
\* time that put a request exactly DWELL_MS after a timestamp
DwellSteps == {30000, 31000}

DwellInit == Init /\ platform = "linux"

DwellNext ==
  \/ (\E c \in MainCodes : AskQuestion(c)) /\ UNCHANGED ui
  \/ (\E q \in Questions \cup {""} : AnswerInput(q)) /\ UNCHANGED ui
  \/ (\E p \in MainCodes, l \in RequestIds, e \in {"ok", "noroot"} :
        handleLevelRequest(p, l, e) /\ inv'[2].kind = "none") /\ UNCHANGED ui
  \/ (\E p \in MainCodes : handleFollowUpQuestion(p, "ok") /\ inv'[2].kind = "none") /\ UNCHANGED ui
  \/ (\E c \in {0, 1}, o \in LiveOutputs : ProcClose(1, c, o)) /\ UNCHANGED ui
  \/ (ProcError(1, "EACCES", "ok")) /\ UNCHANGED ui
  \/ (KillTimer(1)) /\ UNCHANGED ui
  \/ (\E d \in DwellSteps : Tick(d)) /\ UNCHANGED ui

DwellSpec == DwellInit /\ [][DwellNext]_vars

\* one panel and its webview: requests come from clicks the script lets
\* through, and the messages of a host event reach the listener with it
UiInit ==
  /\ userProgress = bindQuestion(FreshProgress("A"), "q1")
  /\ isRequestInFlight = FALSE
  /\ panels = {"A"}
  /\ pendingInput = ""
  /\ inv = [i \in Slots |-> NoInv]
  /\ now = Epoch
  /\ platform = "linux"
  /\ out = << >>
  /\ last = NoEvent
  /\ served = {}
  /\ ui = FreshUi

UiTimerDue ==
  \/ \E t \in ui.timers : now >= t
  \/ \E c \in ui.countdowns : now >= c.at

\* a click on a level button
UiRequestLevel(levelId) ==
  /\ uiCanRequest(ui, levelId)
  /\ handleLevelRequest("A", levelId, "ok")
  /\ ui' = uiDeliver(uiRequested(ui), out')

\* sendFollowUp
UiSendFollowUp ==
  /\ handleFollowUpQuestion("A", "ok")
  /\ ui' = uiDeliver(ui, out')

\* the callback of a 30 s fallback timer
UiFallbackTimer ==
  \E t \in ui.timers :
    /\ now >= t
    /\ ui' = [ui EXCEPT !.inProgress = FALSE, !.timers = @ \ {t}]
    /\ UNCHANGED << userProgress, isRequestInFlight, panels, pendingInput, inv,
                    now, platform, out, last, served >>

\* the last tick of a countdown
UiCountdown ==
  \E c \in ui.countdowns :
    /\ now >= c.at
    /\ ui' = [ui EXCEPT !.disabled = @ \ {c.next}, !.countdowns = @ \ {c}]
    /\ UNCHANGED << userProgress, isRequestInFlight, panels, pendingInput, inv,
                    now, platform, out, last, served >>

UiNext ==
  \/ \E l \in {"concept", "how", "code"} : UiRequestLevel(l)
  \/ UiSendFollowUp
  \/ \E i \in Slots, c \in {0, 1}, o \in LiveOutputs :
       ProcClose(i, c, o) /\ ui' = uiDeliver(ui, out')
  \/ \E i \in Slots : KillTimer(i) /\ ui' = uiDeliver(ui, out')
  \/ \E i \in Slots : ProcError(i, "EACCES", "ok") /\ ui' = uiDeliver(ui, out')
  \/ UiFallbackTimer
  \/ UiCountdown
  \/ \E d \in TickSteps : Tick(d) /\ ~UiTimerDue /\ UNCHANGED ui

UiSpec == UiInit /\ [][UiNext]_vars

\* a caller that asks for the level at currentLevel and then, once the dwell
\* time has passed, for the next one, with workers that all succeed; time
\* passes only while the caller has to wait
ProgressLimit == 250000
ProgressSteps == {15000, 30500}

CallerLevel ==
  IF ~Truthy(userProgress.levelTimestamps[userProgress.currentLevel])
  THEN userProgress.currentLevel
  ELSE userProgress.currentLevel + 1

CallerReady ==
  /\ ~isRequestInFlight
  /\ CallerLevel \in LevelIdx
  /\ CallerLevel > userProgress.currentLevel
       => now - userProgress.levelTimestamps[userProgress.currentLevel] >= DWELL_MS

CallerRequest ==
  /\ CallerReady
  /\ handleLevelRequest("A", levelAt(CallerLevel).id, "ok")
  /\ UNCHANGED ui

WorkerSucceeds ==
  (\E o \in Outputs : ProcClose(1, 0, o)) /\ UNCHANGED ui

CallerWaits ==
  /\ ~CallerReady
  /\ \E d \in ProgressSteps :
       /\ \A i \in Slots : inv[i].kind # "none" => now + d < inv[i].deadline
       /\ TickUntil(d, ProgressLimit)
  /\ UNCHANGED ui

ProgressNext == CallerRequest \/ WorkerSucceeds \/ CallerWaits

ProgressSpec ==
  /\ UiInit
  /\ [][ProgressNext]_vars
  /\ WF_vars(CallerRequest)
  /\ WF_vars(WorkerSucceeds)
  /\ WF_vars(CallerWaits)

(* ------------------------------ properties ---------------------------- *)
TypeOK ==
  /\ userProgress.currentLevel \in LevelIdx
  /\ isRequestInFlight \in BOOLEAN
  /\ now \in Epoch .. MaxTime
  /\ served \subseteq LevelIdx

cur == userProgress.currentLevel
ts(i) == userProgress.levelTimestamps[i]
IsRequest == last.op = "requestLevel"
IsFollowUp == last.op = "askFollowUp"
LevelSettled == last.kind = "level" /\ last.op \in {"close", "timeout", "error"}
LevelSuccess == LevelSettled /\ last.verdict = "SUCCESS"

\* C1: while isRequestInFlight is set, a new requestLevel and a new askFollowUp
\* are both answered BUSY and start no worker process.
C1_BusyWhileInFlight ==
  ((IsRequest \/ IsFollowUp) /\ last.preFlight)
    => (last.verdict = "BUSY" /\ last.spawned = 0)

\* C2: at most one worker invocation is outstanding in every reachable state.
C2_AtMostOneWorker ==
  Cardinality({i \in Slots : inv[i].kind \in {"level", "followup"}}) <= 1

\* C3: the flag is set exactly while the promise of an admitted level request
\* is pending (set before the worker runs, never set with no worker
\* outstanding), and once set it is eventually cleared, whatever the outcome.
C3_FlagReleased ==
  /\ [](isRequestInFlight <=> PendingLevel # {})
  /\ (isRequestInFlight ~> ~isRequestInFlight)

C3_Witness ==
  /\ LevelSettled
  /\ last.text = MsgTypeError
  /\ last.preFlight
  /\ ~isRequestInFlight

\* C4: a level request whose worker is still running when its 45 s kill timer
\* fires is ended: the worker is gone, the request fails with the timeout
\* error, the flag is clear, and a requestLevel that follows is not BUSY.
TimedOutLevel == last.kind = "level" /\ last.op = "timeout"

C4_Timeout ==
  /\ [](TimedOutLevel =>
          /\ now - last.reqTime >= KILL_MS
          /\ last.verdict = "FAILED"
          /\ last.text = MsgTimeout
          /\ out[1] = showError(last.panel, MsgTimeout)
          /\ PendingLevel = {}
          /\ ~isRequestInFlight)
  /\ [][TimedOutLevel =>
          \A p \in MainCodes, l \in RequestIds, e \in StartEnvs :
            handleLevelRequest(p, l, e) => last'.verdict # "BUSY"]_vars

C4_Witness == TimedOutLevel /\ last.preFlight /\ ~isRequestInFlight

\* C5: currentLevel never decreases in a step, unless the step is the reset
\* made by the command for a selection that differs from selectedCode.
C5_Monotonic ==
  [][\/ userProgress'.currentLevel >= userProgress.currentLevel
     \/ \E c \in Codes : c # userProgress.selectedCode /\ AskQuestion(c)]_vars

C5_Witness ==
  /\ LevelSuccess
  /\ last.idx < cur
  /\ userProgress.selectedCode # last.panel

\* C6: a requestLevel more than one step ahead of currentLevel, made with the
\* flag clear, is answered OUT_OF_ORDER whatever the elapsed time.
C6_OutOfOrder ==
  (IsRequest /\ ~last.preFlight /\ last.idx > cur + 1)
    => last.verdict = "OUT_OF_ORDER"

\* C7: a requestLevel for currentLevel + 1, made with the flag clear while a
\* timestamp exists for currentLevel and less than DWELL_MS has elapsed since
\* it, is answered TOO_SOON with remaining = ceil((DWELL_MS - elapsed) / 1000).
C7_Case ==
  /\ IsRequest
  /\ ~last.preFlight
  /\ last.idx = cur + 1
  /\ Truthy(ts(cur))
  /\ now - ts(cur) < DWELL_MS

C7_TooSoon ==
  C7_Case =>
    /\ last.verdict = "TOO_SOON"
    /\ last.wait * 1000 >= DWELL_MS - (now - ts(cur))
    /\ (last.wait - 1) * 1000 < DWELL_MS - (now - ts(cur))

C7_Witness ==
  /\ C7_Case
  /\ last.verdict = "TOO_SOON"
  /\ (DWELL_MS - (now - ts(cur))) % 1000 # 0

\* C8: a level above the first is served only after the level below it has
\* been served since the last reset.
C8_InSequence == \A i \in served : i > 0 => (i - 1) \in served

\* C9: after a successful response that advances to or refreshes level i, the
\* timestamp of i is the time the worker completed.
C9_CompletionTime ==
  (LevelSuccess /\ last.idx = cur) => ts(last.idx) = now

\* C10: a successful level response carries canProceed = TRUE for every level
\* but the last and FALSE for the last.
C10_CanProceed ==
  LevelSuccess =>
    /\ out[1].command = "showResponse"
    /\ out[1].level = last.level
    /\ out[1].canProceed = (last.idx # LevelCount - 1)

C10_Witness ==
  /\ LevelSuccess
  /\ last.idx = LevelCount - 1
  /\ out[1].canProceed = FALSE

\* C11: a successful level request with index i >= currentLevel leaves
\* currentLevel = i and a timestamp for i; a fresh session that asks for the
\* first level ends at level 0, and the second level asked for after the dwell
\* time ends at level 1.
C11_Advance ==
  [][(LevelSuccess' /\ last'.idx >= userProgress.currentLevel)
       => /\ userProgress'.currentLevel = last'.idx
          /\ Truthy(userProgress'.levelTimestamps[last'.idx])]_vars

C11_Witness ==
  /\ LevelSuccess
  /\ last.idx = 1
  /\ cur = 1
  /\ 0 \in served
  /\ last.reqTime - ts(0) >= DWELL_MS

\* C12: a follow-up leaves currentLevel and every timestamp as they are, when
\* it is issued and when its worker succeeds or fails.
C12_FollowUpFrame ==
  [][last'.kind = "followup"
       => /\ userProgress'.currentLevel = userProgress.currentLevel
          /\ userProgress'.levelTimestamps = userProgress.levelTimestamps]_vars

C12_Witness ==
  /\ last.kind = "followup"
  /\ last.op = "close"
  /\ last.verdict = "SUCCESS"
  /\ Truthy(ts(cur))

\* C13: a requestLevel for an id that is not in LEARNING_LEVELS, made with the
\* flag clear, is rejected as UNKNOWN_LEVEL: no worker, flag not set.
C13_UnknownLevel ==
  (IsRequest /\ ~last.preFlight /\ last.idx = -1)
    => /\ last.verdict = "UNKNOWN_LEVEL"
       /\ last.spawned = 0
       /\ ~isRequestInFlight

\* C14: from the admission of a level request to the handling of its failure
\* (launch, timeout, exit code, parse) currentLevel and the timestamps stay
\* as they were at admission.
LevelFailed == LevelSettled /\ last.verdict = "FAILED"

C14_FailureFrame ==
  [][((PendingLevel # {} /\ ~LevelSuccess') \/ last'.op = "requestLevel")
       => /\ userProgress'.currentLevel = userProgress.currentLevel
          /\ userProgress'.levelTimestamps = userProgress.levelTimestamps]_vars

C14_Witness ==
  /\ LevelFailed
  /\ last.text = MsgParse
  /\ last.idx = cur + 1
  /\ ts(last.idx) = Undefined

\* C15: a requestLevel rejected as BUSY, OUT_OF_ORDER or TOO_SOON leaves
\* currentLevel, the timestamps and the flag unchanged and starts no worker.
C15_RejectFrame ==
  [][(last'.op = "requestLevel"
        /\ last'.verdict \in {"BUSY", "OUT_OF_ORDER", "TOO_SOON"})
       => /\ userProgress' = userProgress
          /\ isRequestInFlight' = isRequestInFlight
          /\ inv' = inv
          /\ last'.spawned = 0]_vars

C15_Witness ==
  /\ IsRequest
  /\ last.verdict = "OUT_OF_ORDER"
  /\ ~isRequestInFlight
  /\ LiveProcs = {}

\* C16: the command run for a selection that differs from selectedCode resets
\* the progress: level 0, no timestamps, selectedCode the new selection.
C16_Reset ==
  [][(last'.op = "askQuestion" /\ last'.panel # userProgress.selectedCode)
       => /\ userProgress'.currentLevel = 0
          /\ \A i \in LevelIdx : userProgress'.levelTimestamps[i] = Undefined
          /\ userProgress'.selectedCode = last'.panel]_vars

C16_Witness ==
  /\ last.op = "askQuestion"
  /\ last.verdict = "RESET"
  /\ Codes \subseteq panels
  /\ isRequestInFlight

\* C17: a question asked for the selection the progress is bound to, and
\* different from the bound question, resets currentLevel to 0 and clears
\* the timestamps.
NewQuestion ==
  /\ last'.op = "answerInput"
  /\ userProgress.currentQuestion # ""
  /\ userProgress'.currentQuestion # userProgress.currentQuestion

C17_QuestionResets ==
  [][NewQuestion
       => /\ userProgress'.currentLevel = 0
          /\ \A i \in LevelIdx : userProgress'.levelTimestamps[i] = Undefined]_vars

\* C17 amended: the progress is keyed by the selection alone; the command run
\* for the bound selection changes nothing, and the question given next only
\* replaces currentQuestion.
C17_KeyedByCode ==
  [][/\ (last'.op = "askQuestion" /\ last'.panel = userProgress.selectedCode)
          => userProgress' = userProgress
     /\ last'.op = "answerInput"
          => /\ userProgress'.currentLevel = userProgress.currentLevel
             /\ userProgress'.levelTimestamps = userProgress.levelTimestamps
             /\ userProgress'.selectedCode = userProgress.selectedCode]_vars

C17_Witness ==
  /\ last.op = "answerInput"
  /\ userProgress.currentQuestion = "q2"
  /\ cur = 1
  /\ Truthy(ts(0))
  /\ Truthy(ts(1))

\* C18: the completion of a request made from the panel of one selection
\* leaves the progress of another selection, bound since by a reset, as it is.
C18_Isolation ==
  [][(LevelSettled' /\ last'.panel # userProgress.selectedCode)
       => /\ userProgress'.currentLevel = userProgress.currentLevel
          /\ userProgress'.levelTimestamps = userProgress.levelTimestamps]_vars

\* C19: for a registered level id the text resolved is the tier of that level
\* (concept: level1, how: level2, code: level3) whenever the result has it.
C19_ExactTier ==
  (LevelSuccess /\ targetLevel(last.level) \in last.parsed)
    => last.text = targetLevel(last.level)

\* C20: an admitted level request posts showLoading for its level first,
\* before anything the worker invocation posts, and a rejected one posts no
\* showLoading.
C20_Loading ==
  IsRequest =>
    IF last.verdict = "ADMIT"
    THEN /\ Len(out) >= 1
         /\ out[1].command = "showLoading"
         /\ out[1].level = last.level
         /\ out[1].to = last.panel
         /\ \A k \in 2 .. Len(out) : out[k].command # "showLoading"
    ELSE \A k \in 1 .. Len(out) : out[k].command # "showLoading"

C20_Witness ==
  /\ IsRequest
  /\ last.verdict = "ADMIT"
  /\ last.text = MsgNoRoot
  /\ Len(out) = 3
  /\ out[1].command = "showLoading"

\* C21: every rejection of a level request and every failure of a level or
\* follow-up request posts a showError with a message to the request's panel.
Rejected == IsRequest /\ last.verdict \in {"BUSY", "OUT_OF_ORDER", "TOO_SOON"}
Failed ==
  \/ last.verdict = "FAILED"
  \/ (IsRequest \/ IsFollowUp) /\ last.text # ""

C21_ErrorNotified ==
  (Rejected \/ Failed)
    => \E k \in 1 .. Len(out) :
         /\ out[k].command = "showError"
         /\ out[k].to = last.panel
         /\ out[k].message # ""

C21_Witness ==
  /\ LevelFailed
  /\ last.op = "close"
  /\ last.text = MsgExit
  /\ out[1].command = "showError"
  /\ out[1].message = MsgExit

\* C22: markCompleted is posted only right after the showResponse of a
\* successful level request, for the same level and once, and never by a
\* rejected, failed or follow-up request.
C22_Completed ==
  /\ \A k \in 1 .. Len(out) :
       out[k].command = "markCompleted"
         => /\ LevelSuccess
            /\ k = 2
            /\ out[1].command = "showResponse"
            /\ out[1].level = out[k].level
            /\ out[k].level = last.level
  /\ LevelSuccess
       => /\ Len(out) = 2
          /\ out[2].command = "markCompleted"

C22_Witness ==
  /\ LevelSuccess
  /\ last.level = "how"
  /\ out[2] = markCompleted(last.panel, "how")

\* C23: the checks are made in the order single-flight, level identity,
\* reachability and timing: BUSY whenever the flag is set, UNKNOWN_LEVEL for an
\* unregistered id with the flag clear, and OUT_OF_ORDER or TOO_SOON only for
\* a registered id with the flag clear.
C23_CheckOrder ==
  IsRequest =>
    /\ last.preFlight => last.verdict = "BUSY"
    /\ (~last.preFlight /\ last.idx = -1) => last.verdict = "UNKNOWN_LEVEL"
    /\ last.verdict \in {"OUT_OF_ORDER", "TOO_SOON"}
         => (~last.preFlight /\ last.idx # -1)

\* C24: with no timestamp for currentLevel, a requestLevel for
\* currentLevel + 1 is not admitted.
C24_NoTimestampNoAdvance ==
  (IsRequest /\ ~last.preFlight /\ last.idx = cur + 1 /\ ~Truthy(ts(cur)))
    => last.verdict # "ADMIT"

\* C25: a requestLevel at or below currentLevel, made with the flag clear, is
\* admitted whatever the elapsed time, and serving it leaves the timestamp of
\* currentLevel, from which the dwell time of the next level runs, as it is.
ReRequest ==
  /\ last'.op = "requestLevel"
  /\ ~last'.preFlight
  /\ last'.idx \in 0 .. userProgress.currentLevel

C25_ReaccessKeepsTimer ==
  [][/\ ReRequest => last'.verdict = "ADMIT"
     /\ (LevelSuccess' /\ last'.idx <= userProgress.currentLevel
           /\ Truthy(userProgress.levelTimestamps[userProgress.currentLevel]))
          => userProgress'.levelTimestamps[userProgress.currentLevel]
               = userProgress.levelTimestamps[userProgress.currentLevel]]_vars

\* C25 amended: such a request is admitted whatever the elapsed time; serving
\* an index below currentLevel leaves every timestamp as it is, and serving
\* currentLevel itself restarts the dwell time from the time of that request.
C25_ReaccessRestartsTimer ==
  [][/\ ReRequest => last'.verdict = "ADMIT"
     /\ (LevelSuccess' /\ last'.idx < userProgress.currentLevel)
          => userProgress'.levelTimestamps = userProgress.levelTimestamps
     /\ (LevelSuccess' /\ last'.idx = userProgress.currentLevel)
          => userProgress'.levelTimestamps[userProgress.currentLevel]
               = last'.reqTime]_vars

C25_Witness ==
  /\ IsRequest
  /\ ~last.preFlight
  /\ last.idx = cur
  /\ Truthy(ts(cur))
  /\ now - ts(cur) < DWELL_MS
  /\ now > ts(cur)
  /\ last.verdict = "ADMIT"

\* C26: a successful re-serve of currentLevel changes only the timestamp of
\* currentLevel; a successful re-serve of a lower level changes nothing of
\* the progress.
C26_ReserveFrame ==
  [][/\ (LevelSuccess' /\ last'.idx = userProgress.currentLevel)
          => /\ userProgress'.currentLevel = userProgress.currentLevel
             /\ \A j \in LevelIdx \ {last'.idx} :
                  userProgress'.levelTimestamps[j] = userProgress.levelTimestamps[j]
             /\ userProgress'.levelTimestamps[last'.idx] = last'.reqTime
     /\ (LevelSuccess' /\ last'.idx < userProgress.currentLevel)
          => userProgress' = userProgress]_vars

C26_Witness ==
  /\ LevelSuccess
  /\ last.idx = 0
  /\ cur = 1
  /\ Truthy(ts(0))
  /\ ts(0) < last.reqTime

\* C27: a requestLevel for currentLevel + 1, made with the flag clear, with a
\* timestamp for currentLevel and at least DWELL_MS elapsed, is admitted and
\* the worker is called.
C27_Case ==
  /\ IsRequest
  /\ ~last.preFlight
  /\ last.idx = cur + 1
  /\ Truthy(ts(cur))
  /\ now - ts(cur) >= DWELL_MS

C27_AfterDwell ==
  C27_Case =>
    /\ last.verdict = "ADMIT"
    /\ out[1].command = "showLoading"
    /\ last.text = "" => (last.spawned >= 1 /\ PendingLevel # {})

C27_Witness ==
  /\ C27_Case
  /\ now - ts(cur) = DWELL_MS
  /\ last.verdict = "ADMIT"
  /\ last.spawned = 1

\* C28: an invocation spawns the fallback at most once.
C28_OneFallback == \A i \in Slots : inv[i].fallbacks # "again"

\* C29: a worker invocation that ends with the close of its process settles
\* once: with the timeout error when it was killed at the deadline, whatever
\* the exit code; else with the exit error when the exit code is not 0; else
\* with the parse error when the output does not parse; else with a text
\* taken from the parsed result.
C29_Outcome ==
  /\ (last.op \in {"close", "timeout"} /\ last.verdict # "IGNORED")
       => IF last.op = "timeout"
          THEN last.outcome = [ok |-> FALSE, text |-> MsgTimeout]
          ELSE IF last.exit # 0
          THEN last.outcome = [ok |-> FALSE, text |-> MsgExit]
          ELSE IF last.parsed = Malformed
          THEN last.outcome = [ok |-> FALSE, text |-> MsgParse]
          ELSE /\ last.outcome.ok
               /\ last.outcome.text \in last.parsed \cup {"No output"}
  /\ last.verdict = "IGNORED" => (out = << >> /\ last.outcome.text = "")

C29_Witness ==
  /\ last.op = "timeout"
  /\ last.kind = "followup"
  /\ last.exit # 0
  /\ last.outcome.text = MsgTimeout

\* C30: a timestamp exists for level i only if level i has been served to the
\* bound selection since its last reset.
C30_TimestampServed ==
  \A i \in LevelIdx : ts(i) # Undefined => i \in served

\* C31: after a worker failure no worker is started for the failed request:
\* a worker process is started only by the event that admits a request or by
\* the launch failure of an invocation that has not failed yet, never by an
\* event of an invocation whose failure was already reported.
C31_NoAutoRetry == last.spawned > 0 => last.verdict # "IGNORED"

\* C32: a follow-up posts no showResponse and no markCompleted and is never
\* answered OUT_OF_ORDER or TOO_SOON; its success posts one
\* showFollowUpResponse with the text.
C32_FollowUpReply ==
  last.kind = "followup" =>
    /\ \A k \in 1 .. Len(out) :
         out[k].command \notin {"showResponse", "markCompleted"}
    /\ last.verdict \notin {"OUT_OF_ORDER", "TOO_SOON"}
    /\ (last.op = "close" /\ last.verdict = "SUCCESS")
         => /\ Len(out) = 1
            /\ out[1].command = "showFollowUpResponse"
            /\ out[1].response = last.outcome.text
            /\ out[1].to = last.panel

C32_Witness ==
  /\ last.kind = "followup"
  /\ last.verdict = "SUCCESS"
  /\ out[1].command = "showFollowUpResponse"
  /\ Truthy(ts(cur))
  /\ now - ts(cur) < DWELL_MS

\* C33: showResponse is posted only by a level request whose worker succeeded.
C33_ResponseOnSuccess ==
  \A k \in 1 .. Len(out) : out[k].command = "showResponse" => LevelSuccess

\* C33 amended: a showResponse with the title of the level and the text of the
\* worker is posted only by a successful level request; a rejected and a
\* failed level request post a showResponse too, titled "Request Blocked" or
\* "Error", with canProceed false and the rejection or failure notice as text.
C33_ResponseKinds ==
  \A k \in 1 .. Len(out) :
    out[k].command = "showResponse" =>
      \/ /\ LevelSuccess
         /\ out[k].levelTitle = levelAt(last.idx).title
         /\ out[k].response = last.outcome.text
      \/ /\ Rejected
         /\ out[k].levelTitle = "Request Blocked"
         /\ out[k].response \in {MsgBusy, MsgWait, MsgOrder}
         /\ ~out[k].canProceed
      \/ /\ last.kind = "level"
         /\ Failed
         /\ out[k].levelTitle = "Error"
         /\ out[k].response = "Request failed. Please try again."
         /\ ~out[k].canProceed

C33_Witness ==
  /\ Rejected
  /\ last.verdict = "BUSY"
  /\ Len(out) = 2
  /\ out[2].command = "showResponse"
  /\ out[2].levelTitle = "Request Blocked"

\* C34: the button of level i + 1 is counting down or enabled only if the
\* host has recorded a successful completion of level i.
C34_UnlockAfterSuccess ==
  \A j \in LevelIdx :
    (j > 0 /\ (j \notin ui.disabled \/ \E c \in ui.countdowns : c.next = j))
      => (j - 1) \in served

\* C35: while a requestLevel message awaits the reply of the host, the flag
\* of the webview stays set and no click sends a second requestLevel message.
C35_WebviewSingleFlight ==
  ui.awaiting =>
    /\ ui.inProgress
    /\ \A l \in {"concept", "how", "code"} : ~uiCanRequest(ui, l)

\* C36: above the first level the current level has a timestamp, and a higher
\* level is admitted from there only after the dwell time.
C36_TimestampAtLevel ==
  /\ cur > 0 => Truthy(ts(cur))
  /\ (IsRequest /\ last.verdict = "ADMIT" /\ last.idx > cur /\ cur > 0)
       => now - ts(cur) >= DWELL_MS

C36_Witness ==
  /\ IsRequest
  /\ last.verdict = "ADMIT"
  /\ last.idx = cur + 1
  /\ cur > 0
  /\ Truthy(ts(cur))

\* C37: currentLevel is always an index of LEARNING_LEVELS, also after
\* requests for unregistered ids, and the follow-up's lookup resolves.
C37_LevelInRange ==
  /\ cur \in LevelIdx
  /\ IsFollowUp => \E i \in LevelIdx : last.level = levelAt(i).id

C37_Witness ==
  /\ LevelSettled
  /\ last.idx = -1
  /\ last.outcome.ok
  /\ cur = 0

\* C38: with workers that succeed and a caller that asks for the current
\* level and then for the next one after the dwell time, the last level is
\* reached.
C38_ReachesLast == <>(userProgress.currentLevel = LevelCount - 1)

C38_Witness ==
  /\ LevelSuccess
  /\ cur = LevelCount - 1
  /\ served = LevelIdx

\* C39: every worker process, primary or fallback, has the request written to
\* its stdin exactly once.
C39_WrittenOnce ==
  \A i \in Slots : inv[i].kind # "none" => inv[i].writes = 1

====
